---- MODULE Spec2Model ----
(***************************************************************************)
(* QuantCoin: block admission by Node.new_block (quantcoin/node.py) over   *)
(* the Block data model (quantcoin/block.py), with one handler thread per  *)
(* accepted connection (Node.run); the methods of Block called on their    *)
(* own (BlockSpec); the mine loop of Miner (miner.py) next to send,        *)
(* stop_mining and new_block (MinerSpec, MinerLive); the fan-out of        *)
(* Network.forward (ForwardSpec); the accept loop of Node.run and          *)
(* Node.handle (ServerSpec).                                               *)
(*                                                                         *)
(* Byte strings are sequences of string tokens; string concatenation is    *)
(* \o.  SHA-256 is an injective term constructor, and the number of        *)
(* leading zero bytes of a digest is a fixed function of the term.         *)
(* Python's None is the empty sequence for the nonce and the token "None"  *)
(* for a wallet.                                                           *)
(***************************************************************************)
EXTENDS Integers, Sequences, FiniteSets, TLC

(* ------------------------------ bounds -------------------------------- *)

\* Blocks the handlers may append on top of the initial chain.
MaxChain == 2
\* Largest nonce a submitted block carries.
MaxNonce == 1

(* -------------------------- program constants ------------------------- *)

\* node.py:84 and node.py:116, the divisor of number_of_blocks
EpochLength == 100000
\* node.py:209, random.sample(nodes, 100)
SampleSize == 100
\* node.py:116, the numerator of the coinbase cap
BaseReward == 100

(* ------------------------------ byte strings -------------------------- *)

None == "None"

\* hashlib.sha256(x).digest(): injective in x.
Sha256(x) == <<"sha256(">> \o x \o <<")">>

\* binascii.b2a_base64(x): injective, never empty (it ends in a newline).
b2a_base64(x) == <<"b64(">> \o x \o <<")", "\n">>

\* Python truth value of a string: false only for the empty string.
Truthy(s) == s # <<>>

\* str(nonce)
str(n) == <<ToString(n)>>

Nonces == 0 .. MaxNonce

\* The sentinel the first block refers to (node.py:86).
GENESIS == <<"genesis_block">>

\* Bytes that are the digest of nothing.
JUNK == <<"junk">>

\* Leading zero bytes of a SHA-256 digest: a fixed function of the hashed
\* bytes (their length and the nonce token that ends them).
NonceTokenValue(tok) ==
    IF \E n \in Nonces : ToString(n) = tok
    THEN CHOOSE n \in Nonces : ToString(n) = tok
    ELSE 0

ZeroBytes(d) ==
    IF Len(d) < 3 THEN 0
    ELSE (Len(d) + NonceTokenValue(d[Len(d) - 1])) % 3

\* digest[:difficulty] == bytearray([0] * difficulty) for a 32-byte digest.
\* range(difficulty) is empty for difficulty <= 0, and digest[:difficulty]
\* with a negative difficulty drops the last -difficulty bytes.
DigestBytes == 32

HasZeroPrefix(d, difficulty) ==
    IF difficulty >= 0
    THEN difficulty <= DigestBytes /\ ZeroBytes(d) >= difficulty
    ELSE DigestBytes + difficulty <= 0

(* ------------------------------ transactions -------------------------- *)

\* One entry of to_wallets.
Out(a, amt, c) == [address |-> a, amount |-> amt, commission |-> c]

Transaction(from, to, sig, pk) ==
    [from_wallet |-> from, to_wallets |-> to, signature |-> sig, public_key |-> pk]

RECURSIVE SumSpent(_)
SumSpent(outs) ==
    IF outs = <<>> THEN 0
    ELSE Head(outs).amount + Head(outs).commission + SumSpent(Tail(outs))

\* Transaction.amount_spent(): outgoing amounts plus commissions.
amount_spent(t) == SumSpent(t.to_wallets)

\* Transaction.prepare_for_signature(): the signing body.
prepare_for_signature(t) == [from |-> t.from_wallet, to |-> t.to_wallets]

RECURSIVE OutsJson(_)
OutsJson(outs) ==
    IF outs = <<>> THEN <<>>
    ELSE <<Head(outs).address, ToString(Head(outs).amount),
           ToString(Head(outs).commission)>> \o OutsJson(Tail(outs))

\* Transaction.json(): the serialization that is hashed into the tree.
TxJson(t) ==
    <<"{", t.from_wallet>> \o OutsJson(t.to_wallets)
        \o <<t.signature, t.public_key, "}">>

\* 'QC' + sha1(public_key).hexdigest()  (node.py:107)
AddressOf(pk) ==
    CASE pk = "ka" -> "QCa"
      [] pk = "kb" -> "QCb"
      [] OTHER -> "QC?"

\* The transactions of the model.
Coinbase(amt) == Transaction(None, <<Out("QCa", amt, 0)>>, "", "")
PayAB == Transaction("QCa", <<Out("QCb", 60, 0)>>, "sig_ab", "ka")
PayAC == Transaction("QCa", <<Out("QCc", 50, 10)>>, "sig_ac", "ka")
SelfPay == Transaction("QCa", <<Out("QCb", 10, 0), Out("QCa", 10, 0)>>, "sig_self", "ka")
\* signed by the holder of kb in the name of QCa
Forged == Transaction("QCa", <<Out("QCb", 60, 0)>>, "sig_forged", "kb")
\* PayAB's signature on a body with another amount
Tampered == Transaction("QCa", <<Out("QCb", 70, 0)>>, "sig_ab", "ka")

\* The signatures that were made with the private key of public_key.
GenuineTransactions == {PayAB, PayAC, SelfPay, Forged}

\* VerifyingKey.verify(signature, message, hashfunc=sha256)
Verify(pk, sig, msg) ==
    \E g \in GenuineTransactions :
        g.public_key = pk /\ g.signature = sig /\ prepare_for_signature(g) = msg

\* The transaction lists a submitted block may carry.
BlockTransactions ==
    { <<>>,
      <<Coinbase(50)>>, <<Coinbase(51)>>, <<Coinbase(100)>>, <<Coinbase(101)>>,
      <<Coinbase(50), Coinbase(50)>>,
      <<Coinbase(50), PayAB, Coinbase(51)>>,
      <<PayAB>>, <<PayAB, PayAB>>, <<PayAB, PayAC>>,
      <<SelfPay>>, <<Forged>>, <<Tampered>> }

(* --------------------------------- Block ------------------------------ *)

Block(author, txs, previous_block, nonce, digest) ==
    [author |-> author, transactions |-> txs, previous_block |-> previous_block,
     nonce |-> nonce, digest |-> digest]

\* Python 2 ordering of from_wallet values: None is below every string.
WalletRank(w) ==
    CASE w = None -> 0
      [] w = "QCa" -> 1
      [] w = "QCb" -> 2
      [] w = "QCc" -> 3
      [] OTHER -> 4

\* The cmp argument of sorted() in Block.transactions: a bool, so 1 or 0.
Cmp(t1, t2) == IF WalletRank(t1.from_wallet) < WalletRank(t2.from_wallet) THEN 1 ELSE 0

\* sorted() moves x before y only when cmp(x, y) < 0.
IsLessThan(x, y) == Cmp(x, y) < 0

RECURSIVE InsertSorted(_, _)
InsertSorted(s, x) ==
    IF s = <<>> \/ ~IsLessThan(x, s[Len(s)])
    THEN Append(s, x)
    ELSE Append(InsertSorted(SubSeq(s, 1, Len(s) - 1), x), s[Len(s)])

RECURSIVE Sorted(_)
Sorted(s) ==
    IF s = <<>> THEN <<>>
    ELSE InsertSorted(Sorted(SubSeq(s, 1, Len(s) - 1)), s[Len(s)])

\* Block.transactions()
transactions(b) == Sorted(b.transactions)

\* Block.previous()
previous(b) == b2a_base64(b.previous_block)

\* Block.digest()
digest(b) == b2a_base64(b.digest)

\* Block.author()
author(b) == b.author

RECURSIVE LeafHashes(_)
LeafHashes(txs) ==
    IF txs = <<>> THEN <<>>
    ELSE <<Sha256(TxJson(Head(txs)))>> \o LeafHashes(Tail(txs))

\* The while loop of transactions_digest: hash the first two, append.
RECURSIVE ReduceQueue(_)
ReduceQueue(queue) ==
    IF Len(queue) <= 1 THEN queue
    ELSE ReduceQueue(Append(SubSeq(queue, 3, Len(queue)),
                            Sha256(queue[1] \o queue[2])))

\* Block.transactions_digest()
transactions_digest(b) ==
    LET ordered == transactions(b)
        leaves == LeafHashes(ordered)
        queue == IF Len(leaves) % 2 = 1 THEN Append(leaves, <<>>) ELSE leaves
    IN IF Len(ordered) = 0 THEN Sha256(<<>>) ELSE ReduceQueue(queue)[1]

\* sha256(author + previous + transactions_digest + str(nonce)).digest()
CalculatedDigest(b, nonce) ==
    Sha256(author(b) \o previous(b) \o transactions_digest(b) \o str(nonce))

\* valid() that compares the digests and forgets the zero prefix.
validWithoutPrefix(b, difficulty) ==
    b.nonce # <<>> /\ CalculatedDigest(b, b.nonce[1]) = b.digest

\* Block.valid(difficulty)
valid(b, difficulty) ==
    IF b.nonce # <<>>
    THEN LET calculated_digest == CalculatedDigest(b, b.nonce[1])
         IN calculated_digest = b.digest /\ HasZeroPrefix(calculated_digest, difficulty)
    ELSE FALSE

(* --------------------------------- state ------------------------------ *)

\* The handler threads Node.run starts, one per accepted connection.
Handlers == {"h1", "h2"}

\* The peers that may register.
Peers == {<<"10.0.0.2", 65345>>}

\* Lengths of the chain the Store holds when the node starts.
\* Only the blocks appended since then are kept in full.
InitialLengths == {0, 99999}

\* The digest of the last block of a non-empty initial chain.
InitialTip == Sha256(<<"initial_chain">>)

\* What each address owns on the initial chain.
InitialOwned(n, address) == IF n > 0 /\ address = "QCa" THEN 100 ELSE 0

VARIABLES
    initial,    \* number of blocks of the Store at start
    chain,      \* Store: the blocks appended since, in order
    nodes,      \* Store: the set of known peers
    hs,         \* per handler: the locals of Node.new_block
    last,       \* outcome of the most recent step
    call,       \* a call of a Block method: its arguments and its result
    miner,      \* the fields of the Miner and the position of its mine loop
    net,        \* a call of Network.forward: the peers it attempted
    server      \* Node.run: the connections accepted and their handlers

vars == <<initial, chain, nodes, hs, last, call, miner, net, server>>

\* The state outside Node.new_block and Node.register.
others == <<call, miner, net, server>>

NoBlock == Block(<<>>, <<>>, <<>>, <<>>, <<>>)

Idle ==
    [pc |-> "idle", block |-> NoBlock, i |-> 0,
     has_coin_creation_transaction |-> FALSE,
     number_of_blocks |-> 0, network_difficulty |-> 0]

RejectReasons ==
    {"parent", "pow", "funds", "selfpay", "key", "signature", "coinbase", "cap"}

\* No Block method was called.
NoCall ==
    [op |-> "none", given |-> NoBlock, block |-> NoBlock, difficulty |-> 0,
     start_nonce |-> 0, end_nonce |-> 0, returned |-> "none", root |-> <<>>]

\* No Miner was constructed.
NoMiner ==
    [pc |-> "absent", mining |-> FALSE, lock |-> "free", wallet |-> <<>>,
     transaction_queue |-> <<>>, last_block |-> <<>>, network_difficulty |-> 0,
     min_transaction_count |-> 0, min_commission |-> 0, block |-> NoBlock,
     sender |-> "none", pending |-> <<>>]

\* Network.forward was not called.
NoForward ==
    [failing |-> {}, known |-> 0, attempted |-> {}, delivered |-> {}, outcome |-> "none"]

\* The connections a run of the server may accept.
Connections == {"c1", "c2", "c3"}

\* A connection nobody opened yet.
NoConnection == [pc |-> "waiting", payload |-> "none", open |-> FALSE, response |-> "none"]

\* Node.run was not called.
NoServer == [running |-> FALSE, connections |-> [c \in Connections |-> NoConnection]]

(* --------------------------------- Store ------------------------------ *)

\* len(self._quantcoin.blocks())
NumberOfBlocks == initial + Len(chain)

\* known_blocks[-1].digest(); read only when the chain is not empty.
TipDigest ==
    IF Len(chain) > 0 THEN digest(chain[Len(chain)]) ELSE b2a_base64(InitialTip)

RECURSIVE Credits(_, _)
Credits(outs, address) ==
    IF outs = <<>> THEN 0
    ELSE (IF Head(outs).address = address THEN Head(outs).amount ELSE 0)
         + Credits(Tail(outs), address)

RECURSIVE TxsDelta(_, _)
TxsDelta(txs, address) ==
    IF txs = <<>> THEN 0
    ELSE Credits(Head(txs).to_wallets, address)
         - (IF Head(txs).from_wallet = address THEN amount_spent(Head(txs)) ELSE 0)
         + TxsDelta(Tail(txs), address)

RECURSIVE ChainDelta(_, _)
ChainDelta(blocks, address) ==
    IF blocks = <<>> THEN 0
    ELSE TxsDelta(Head(blocks).transactions, address) + ChainDelta(Tail(blocks), address)

\* Store.amount_owned(address) on the chain whose appended part is blocks.
OwnedOn(blocks, address) == InitialOwned(initial, address) + ChainDelta(blocks, address)

amount_owned(address) == OwnedOn(chain, address)

\* Store.store_block(block): idempotent append.
store_block(blocks, b) ==
    IF \E k \in 1 .. Len(blocks) : blocks[k] = b THEN blocks ELSE Append(blocks, b)

\* Store.store_node(peer): idempotent insert.
store_node(peers, p) == peers \cup {p}

(* ------------------------------ Node.new_block ------------------------ *)

\* int(52 - (50 / 1 + number_of_blocks // 100000))   (node.py:84)
NetworkDifficulty(number_of_blocks) ==
    52 - ((50 \div 1) + (number_of_blocks \div EpochLength))

\* 100 / (1 + (number_of_blocks // 100000))   (node.py:116)
Reward(number_of_blocks) == BaseReward \div (1 + (number_of_blocks \div EpochLength))

\* The asserted expression of node.py:85-86:
\*   block.previous() == known_blocks[-1].digest() if number_of_blocks > 0
\*   else binascii.b2a_base64('genesis_block')
ParentAssertion(b, number_of_blocks, tip) ==
    IF number_of_blocks > 0
    THEN previous(b) = tip
    ELSE Truthy(b2a_base64(GENESIS))

\* A handler that stores the block before it checks its transactions.
RejectAfterStore(h, reason) ==
    /\ hs' = [hs EXCEPT ![h] = Idle]
    /\ last' = reason
    /\ chain' = IF hs[h].pc = "loop" THEN store_block(chain, hs[h].block) ELSE chain
    /\ UNCHANGED <<initial, nodes>>
    /\ UNCHANGED others

\* except AssertionError: the block is logged and dropped.
Reject(h, reason) ==
    /\ hs' = [hs EXCEPT ![h] = Idle]
    /\ last' = reason
    /\ UNCHANGED <<initial, chain, nodes>>
    /\ UNCHANGED others

\* The digest a block that extends the chain refers to.
CurrentParent ==
    IF Len(chain) > 0 THEN chain[Len(chain)].digest
    ELSE IF initial > 0 THEN InitialTip ELSE GENESIS

\* Every previous a peer may send.
Parents ==
    {GENESIS, JUNK} \cup (IF initial > 0 THEN {InitialTip} ELSE {})
        \cup {chain[k].digest : k \in 1 .. Len(chain)}

\* A block with the digest of its fields.
Mined(txs, p, n) ==
    Block(<<"QCa">>, txs, p, <<n>>,
          CalculatedDigest(Block(<<"QCa">>, txs, p, <<n>>, JUNK), n))

\* Blocks that cannot be valid: one without nonce, one whose digest is
\* not the digest of its fields.
Malformed ==
    {Block(<<"QCa">>, <<>>, CurrentParent, <<>>, JUNK),
     Block(<<"QCa">>, <<>>, CurrentParent, <<0>>, JUNK)}

InFlight == Cardinality({h \in Handlers : hs[h].pc # "idle"})

\* node.py:81-87: decode the block, read the chain, check parent and work.
\* The announced block b is any transaction list on the current last block,
\* an empty block on any previous, or a malformed block (see Next).
NewBlockBegin(h, b) ==
    /\ hs[h].pc = "idle"
    /\ Len(chain) + InFlight < MaxChain
    /\ LET number_of_blocks == NumberOfBlocks
           network_difficulty == NetworkDifficulty(number_of_blocks)
       IN IF ~ParentAssertion(b, number_of_blocks, TipDigest)
          THEN Reject(h, "parent")
          ELSE IF ~valid(b, network_difficulty)
          THEN Reject(h, "pow")
          ELSE /\ hs' = [hs EXCEPT ![h] =
                           [pc |-> IF transactions(b) = <<>> THEN "store" ELSE "loop",
                            block |-> b, i |-> 1,
                            has_coin_creation_transaction |-> FALSE,
                            number_of_blocks |-> number_of_blocks,
                            network_difficulty |-> network_difficulty]]
               /\ last' = "none"
               /\ UNCHANGED <<initial, chain, nodes>>
               /\ UNCHANGED others

\* A loop that looks at the first output only.
PaysFirstOutputToItself(t) ==
    t.to_wallets # <<>> /\ t.to_wallets[1].address = t.from_wallet

\* node.py:97-98: some to_address equals from_wallet.
PaysItself(t) ==
    \E k \in 1 .. Len(t.to_wallets) : t.to_wallets[k].address = t.from_wallet

\* A loop that never sets the flag.
FlagNeverSet(has_coin_creation_transaction, t) == has_coin_creation_transaction

\* has_coin_creation_transaction after the iteration for t (node.py:89, 118).
FlagAfter(has_coin_creation_transaction, t) ==
    has_coin_creation_transaction \/ t.from_wallet = None

\* The reason the body of the loop (node.py:92-118) fails for transaction t,
\* or "ok".
TransactionCheck(t, has_coin_creation_transaction, number_of_blocks) ==
    IF t.from_wallet # None
    THEN IF ~(amount_spent(t) <= amount_owned(t.from_wallet)) THEN "funds"
         ELSE IF PaysItself(t) THEN "selfpay"
         ELSE IF AddressOf(t.public_key) # t.from_wallet THEN "key"
         ELSE IF ~Verify(t.public_key, t.signature, prepare_for_signature(t))
              THEN "signature"
         ELSE "ok"
    ELSE IF has_coin_creation_transaction THEN "coinbase"
         ELSE IF ~(amount_spent(t) <= Reward(number_of_blocks)) THEN "cap"
         ELSE "ok"

\* node.py:90-118: one iteration of the loop over block.transactions().
NewBlockTransaction(h) ==
    /\ hs[h].pc = "loop"
    /\ LET txs == transactions(hs[h].block)
           t == txs[hs[h].i]
           result == TransactionCheck(t, hs[h].has_coin_creation_transaction,
                                      hs[h].number_of_blocks)
       IN IF result # "ok"
          THEN Reject(h, result)
          ELSE /\ hs' = [hs EXCEPT
                           ![h].i = @ + 1,
                           ![h].has_coin_creation_transaction = FlagAfter(@, t),
                           ![h].pc = IF hs[h].i = Len(txs) THEN "store" ELSE "loop"]
               /\ last' = "none"
               /\ UNCHANGED <<initial, chain, nodes>>
               /\ UNCHANGED others

\* What forward does with the peers known (node.py:207-227):
\* random.sample(nodes, 100) raises ValueError for fewer than 100 peers.
ForwardOutcome(peers) ==
    IF Cardinality(peers) < SampleSize THEN "forward_raised" ELSE "forwarded"

\* node.py:120-122: self._quantcoin.store_block(block), then
\* self._network.forward(data), which changes nothing in the Store.
NewBlockStore(h) ==
    /\ hs[h].pc = "store"
    /\ chain' = store_block(chain, hs[h].block)
    /\ hs' = [hs EXCEPT ![h] = Idle]
    /\ last' = ForwardOutcome(nodes)
    /\ UNCHANGED <<initial, nodes>>
    /\ UNCHANGED others

\* Node.register (node.py:68-73)
Register(p) ==
    /\ nodes' = store_node(nodes, p)
    /\ last' = "none"
    /\ UNCHANGED <<initial, chain, hs>>
    /\ UNCHANGED others

Init ==
    /\ initial \in InitialLengths
    /\ chain = <<>>
    /\ nodes = {}
    /\ hs = [h \in Handlers |-> Idle]
    /\ last = "none"
    /\ call = NoCall
    /\ miner = NoMiner
    /\ net = NoForward
    /\ server = NoServer

Next ==
    \/ \E h \in Handlers : \E txs \in BlockTransactions, n \in Nonces :
           NewBlockBegin(h, Mined(txs, CurrentParent, n))
    \/ \E h \in Handlers : \E p \in Parents, n \in Nonces :
           NewBlockBegin(h, Mined(<<>>, p, n))
    \/ \E h \in Handlers : \E b \in Malformed : NewBlockBegin(h, b)
    \/ \E h \in Handlers : NewBlockTransaction(h)
    \/ \E h \in Handlers : NewBlockStore(h)
    \/ \E p \in Peers : Register(p)

Spec == Init /\ [][Next]_vars

(* ------------------------------ properties ---------------------------- *)

\* Number of blocks in the Store before the k-th appended block.
LengthBefore(k) == initial + k - 1

\* The digest of the block before the k-th appended block, or the sentinel.
ParentOf(k) ==
    IF k > 1 THEN chain[k - 1].digest
    ELSE IF initial > 0 THEN InitialTip ELSE GENESIS

Positions == 1 .. Len(chain)

IsCoinbase(t) == t.from_wallet = None

TxIndices(b) == 1 .. Len(b.transactions)

\* C1: every stored block's previous is the digest of the block stored
\* right before it, or the genesis sentinel when it is the first block of
\* the chain.
C1_ParentOrGenesis ==
    \A k \in Positions : chain[k].previous_block = ParentOf(k)

\* C2: a step in which new_block rejects a block leaves the chain and the
\* peer set as they were.
C2_RejectionLeavesStore ==
    [][last' \in RejectReasons => (chain' = chain /\ nodes' = nodes)]_vars

\* A block was rejected by a check late in the loop while the Store held
\* blocks and peers.
C2_Witness ==
    /\ last \in {"signature", "cap", "coinbase"}
    /\ Len(chain) > 0
    /\ nodes # {}

\* C3: in every reachable state each non-first block's previous is the
\* digest of the block immediately before it.
C3_ChainLinked ==
    \A k \in Positions :
        (k > 1 \/ initial > 0) => chain[k].previous_block = ParentOf(k)

\* C4: every stored block has a nonce, its digest is the digest recomputed
\* from author, previous, transactions root and nonce, and the digest begins
\* with as many zero bytes as the network difficulty of the chain length
\* before the block.
C4_StoredBlocksValid ==
    \A k \in Positions :
        /\ chain[k].nonce # <<>>
        /\ chain[k].digest = CalculatedDigest(chain[k], chain[k].nonce[1])
        /\ ZeroBytes(chain[k].digest) >= NetworkDifficulty(LengthBefore(k))

\* A block stored after the first epoch whose digest has exactly the one
\* zero byte required there.
C4_Witness ==
    \E k \in Positions :
        /\ LengthBefore(k) >= EpochLength
        /\ NetworkDifficulty(LengthBefore(k)) = 1
        /\ ZeroBytes(chain[k].digest) = 1

\* floor(52 - 50 / (1 + floor(n / 100000)))
ScheduleDifficulty(n) ==
    LET m == 1 + (n \div EpochLength)
    IN 52 - ((50 + m - 1) \div m)

\* C5: the difficulty new_block uses at chain length n is
\* floor(52 - 50 / (1 + floor(n / 100000))).
C5_DifficultySchedule ==
    \A h \in Handlers :
        hs[h].pc # "idle" =>
            hs[h].network_difficulty = ScheduleDifficulty(hs[h].number_of_blocks)

\* C6: every coinbase transaction of a block stored at chain length n spends
\* at most reward(n) = 100 / (1 + floor(n / 100000)).
C6_CoinbaseCap ==
    \A k \in Positions : \A j \in TxIndices(chain[k]) :
        IsCoinbase(chain[k].transactions[j]) =>
            amount_spent(chain[k].transactions[j]) * (1 + (LengthBefore(k) \div EpochLength))
                <= BaseReward

\* C7: every stored block has at most one transaction with from_wallet = None.
C7_OneCoinbase ==
    \A k \in Positions :
        Cardinality({j \in TxIndices(chain[k]) : IsCoinbase(chain[k].transactions[j])}) <= 1

\* A block was rejected for its second coinbase while the chain holds a
\* block with exactly one.
C7_Witness ==
    /\ last = "coinbase"
    /\ \E k \in Positions :
           Cardinality({j \in TxIndices(chain[k]) : IsCoinbase(chain[k].transactions[j])}) = 1

SelfPaying(t) ==
    /\ ~IsCoinbase(t)
    /\ \E o \in 1 .. Len(t.to_wallets) : t.to_wallets[o].address = t.from_wallet

\* C9: no stored block contains a non-coinbase transaction with an output to
\* its own from_wallet.
C9_NoSelfPay ==
    \A k \in Positions : \A j \in TxIndices(chain[k]) :
        ~SelfPaying(chain[k].transactions[j])

\* A block was rejected because a transaction pays its own from_wallet,
\* while the chain holds a block with a transaction that does not.
C9_Witness ==
    /\ last = "selfpay"
    /\ \E k \in Positions : \E j \in TxIndices(chain[k]) :
           ~IsCoinbase(chain[k].transactions[j])

Addresses == {"QCa", "QCb", "QCc"}

\* What the transactions of txs with from_wallet = address spend together.
RECURSIVE SpentBy(_, _)
SpentBy(txs, address) ==
    IF txs = <<>> THEN 0
    ELSE (IF Head(txs).from_wallet = address THEN amount_spent(Head(txs)) ELSE 0)
         + SpentBy(Tail(txs), address)

MaxSearchNonce == 2
\* Largest difficulty of a proof_of_work call.
MaxDifficulty == 3
\* Largest number of transactions of a block whose tree root is taken.
MaxLeaves == 6

SearchNonces == 0 .. MaxSearchNonce
Difficulties == 0 .. MaxDifficulty

\* Transactions with different serializations.
TransactionPool == <<Coinbase(50), PayAB, PayAC, SelfPay, Forged, Tampered>>

\* The list of len transactions that starts at position offset of the pool.
TxList(offset, len) ==
    [i \in 1 .. len |-> TransactionPool[((offset + i - 1) % Len(TransactionPool)) + 1]]

TxLists == {TxList(o, l) : o \in 0 .. Len(TransactionPool) - 1, l \in 0 .. MaxLeaves}

\* A search that gives up one nonce before end_nonce.
RECURSIVE SearchBeforeEnd(_, _, _, _)
SearchBeforeEnd(b, difficulty, nonce, end_nonce) ==
    IF HasZeroPrefix(CalculatedDigest(b, nonce), difficulty) THEN nonce
    ELSE IF nonce + 1 >= end_nonce THEN -1
    ELSE SearchBeforeEnd(b, difficulty, nonce + 1, end_nonce)

\* block.py:150-159: the digest of nonce is taken first; while it does not
\* begin with the zeros, nonce is incremented and, past end_nonce, the search
\* gives up.  The result is the nonce found, or -1.
RECURSIVE Search(_, _, _, _)
Search(b, difficulty, nonce, end_nonce) ==
    IF HasZeroPrefix(CalculatedDigest(b, nonce), difficulty) THEN nonce
    ELSE IF nonce + 1 > end_nonce THEN -1
    ELSE Search(b, difficulty, nonce + 1, end_nonce)

\* Block.proof_of_work(difficulty, start_nonce, end_nonce): the block after
\* the call and the value returned.
proof_of_work(b, difficulty, start_nonce, end_nonce) ==
    IF b.nonce = <<>>
    THEN LET nonce == Search(b, difficulty, start_nonce, end_nonce)
         IN IF nonce = -1
            THEN [block |-> b, returned |-> FALSE]
            ELSE [block |-> [b EXCEPT !.nonce = <<nonce>>,
                                      !.digest = CalculatedDigest(b, nonce)],
                  returned |-> TRUE]
    ELSE [block |-> b, returned |-> TRUE]

\* A call of proof_of_work on the block drawn in BlockInit.
CallProofOfWork(difficulty, start_nonce, end_nonce) ==
    /\ call.op = "ready"
    /\ LET r == proof_of_work(call.given, difficulty, start_nonce, end_nonce)
       IN call' = [call EXCEPT !.op = "proof_of_work",
                               !.block = r.block,
                               !.difficulty = difficulty,
                               !.start_nonce = start_nonce,
                               !.end_nonce = end_nonce,
                               !.returned = IF r.returned THEN "True" ELSE "False"]
    /\ last' = "none"
    /\ UNCHANGED <<initial, chain, nodes, hs, miner, net, server>>

\* A call of transactions_digest on the block drawn in BlockInit.
CallTransactionsDigest ==
    /\ call.op = "ready"
    /\ call' = [call EXCEPT !.op = "transactions_digest",
                            !.root = transactions_digest(call.given)]
    /\ last' = "none"
    /\ UNCHANGED <<initial, chain, nodes, hs, miner, net, server>>

\* The blocks the methods are called on: without a nonce, or mined before.
BlockInit ==
    /\ initial = 0
    /\ chain = <<>>
    /\ nodes = {}
    /\ hs = [h \in Handlers |-> Idle]
    /\ last = "none"
    /\ miner = NoMiner
    /\ net = NoForward
    /\ server = NoServer
    /\ \E txs \in TxLists, p \in {GENESIS, InitialTip} :
          \E b \in {Block(<<"QCa">>, txs, p, <<>>, <<>>)}
                     \cup {Mined(txs, p, n) : n \in Nonces} :
              call = [NoCall EXCEPT !.op = "ready", !.given = b, !.block = b]

BlockNext ==
    \/ \E difficulty \in Difficulties, start_nonce, end_nonce \in SearchNonces :
           CallProofOfWork(difficulty, start_nonce, end_nonce)
    \/ CallTransactionsDigest

BlockSpec == BlockInit /\ [][BlockNext]_vars

\* C11: when proof_of_work returns true, the digest the block holds begins
\* with difficulty zero bytes, whether or not the block carried a nonce
\* before the call.
C11_PowSound ==
    (call.op = "proof_of_work" /\ call.returned = "True") =>
        HasZeroPrefix(call.block.digest, call.difficulty)

\* The nonces of the interval whose digest begins with the zeros.
Qualifying ==
    {n \in call.start_nonce .. call.end_nonce :
        HasZeroPrefix(CalculatedDigest(call.given, n), call.difficulty)}

\* C12: on a block without nonce and with start <= end, proof_of_work
\* returns true exactly when a nonce of [start, end] qualifies, and then the
\* block holds such a nonce and its digest; otherwise it returns false and
\* the block is as it was.
C12_SearchExact ==
    (call.op = "proof_of_work" /\ call.given.nonce = <<>>
        /\ call.start_nonce <= call.end_nonce) =>
        IF Qualifying # {}
        THEN /\ call.returned = "True"
             /\ call.block.nonce # <<>>
             /\ call.block.nonce[1] \in Qualifying
             /\ call.block =
                   [call.given EXCEPT
                       !.nonce = call.block.nonce,
                       !.digest = CalculatedDigest(call.given, call.block.nonce[1])]
        ELSE /\ call.returned = "False"
             /\ call.block = call.given

\* A search that found its nonce at the end of an interval of several.
C12_Witness ==
    /\ call.op = "proof_of_work"
    /\ call.given.nonce = <<>>
    /\ call.start_nonce < call.end_nonce
    /\ call.returned = "True"
    /\ call.block.nonce = <<call.end_nonce>>

\* One level of the tree: pad an odd level, hash the adjacent pairs.
PadOdd(level) == IF Len(level) % 2 = 1 THEN Append(level, <<>>) ELSE level

RECURSIVE PairUp(_)
PairUp(level) ==
    IF level = <<>> THEN <<>>
    ELSE <<Sha256(level[1] \o level[2])>> \o PairUp(SubSeq(level, 3, Len(level)))

RECURSIVE TreeRoot(_)
TreeRoot(level) ==
    LET next == PairUp(PadOdd(level))
    IN IF Len(next) = 1 THEN next[1] ELSE TreeRoot(next)

\* The level-by-level root of a transaction list.
LevelRoot(txs) == IF txs = <<>> THEN Sha256(<<>>) ELSE TreeRoot(LeafHashes(txs))

\* C20: transactions_digest is the level-by-level root: SHA-256 of the empty
\* string for no transactions; otherwise every odd level is padded with an
\* empty node and adjacent pairs are hashed until one node remains.
C20_LevelByLevelRoot ==
    call.op = "transactions_digest" => call.root = LevelRoot(transactions(call.given))

(* --------------------------------- Miner ------------------------------ *)

\* Largest number of transactions in the Miner's queue.
MaxQueue == 2

\* Enough peers for random.sample(nodes, 100).
ManyPeers == {<<"10.0.1.1", 65000 + k>> : k \in 1 .. SampleSize}

\* The transactions peers announce with send.
SendPool == {PayAB, PayAC, Tampered}

\* The arguments of mine().
MinTransactionCounts == 0 .. MaxQueue
MinCommissions == {-1, 10, 20}

\* int(math.sqrt(n))
Isqrt(n) == CHOOSE k \in 0 .. n : k * k <= n /\ (k + 1) * (k + 1) > n

\* Transaction.verify()
verify(t) ==
    IF t.from_wallet = None THEN TRUE
    ELSE /\ AddressOf(t.public_key) = t.from_wallet
         /\ Verify(t.public_key, t.signature, prepare_for_signature(t))

RECURSIVE SumCommission(_)
SumCommission(outs) ==
    IF outs = <<>> THEN 0 ELSE Head(outs).commission + SumCommission(Tail(outs))

\* Transaction.commission()
commission(t) == SumCommission(t.to_wallets)

\* sum(t.commission() for t in self._transaction_queue)   (miner.py:78)
RECURSIVE QueueCommission(_)
QueueCommission(queue) ==
    IF queue = <<>> THEN 0 ELSE commission(Head(queue)) + QueueCommission(Tail(queue))

\* miner.py:71
LacksTransactions(queue, min_transaction_count) == min_transaction_count > Len(queue)

\* A miner that never looks at the commission.
CommissionIgnored(queue, min_commission) == FALSE

\* miner.py:77-79
BelowCommission(queue, min_commission) ==
    min_commission > 0 /\ QueueCommission(queue) < min_commission

\* Miner.__init__ (miner.py:19-29) on the Store as it is.
NewMiner ==
    [NoMiner EXCEPT
        !.pc = "idle",
        !.wallet = <<"QCa">>,
        !.last_block = IF NumberOfBlocks > 0 THEN TipDigest ELSE GENESIS,
        !.network_difficulty = 1 + Isqrt(NumberOfBlocks)]

\* mine(min_transaction_count, min_commission) is called (miner.py:64-67).
Mine(min_transaction_count, min_commission) ==
    /\ miner.pc = "idle"
    /\ miner' = [miner EXCEPT !.pc = "gather",
                              !.mining = TRUE,
                              !.min_transaction_count = min_transaction_count,
                              !.min_commission = min_commission]
    /\ last' = "mine_started"
    /\ UNCHANGED <<initial, chain, nodes, hs, call, net, server>>

\* miner.py:68-70: the loop test, then the lock is taken.
MineAcquire ==
    /\ miner.pc = "gather"
    /\ IF ~miner.mining
       THEN /\ miner' = [miner EXCEPT !.pc = "idle"]
            /\ last' = "mine_exit"
       ELSE /\ miner.lock = "free"
            /\ miner' = [miner EXCEPT !.pc = "locked", !.lock = "mine"]
            /\ last' = "none"
    /\ UNCHANGED <<initial, chain, nodes, hs, call, net, server>>

\* A miner that goes to sleep with the lock.
SleepWithoutRelease(m) == [m EXCEPT !.pc = "gather"]

\* miner.py:74-76 and 82-84: release the lock, sleep, continue.
ReleaseAndSleep(m) == [m EXCEPT !.pc = "gather", !.lock = "free"]

\* miner.py:71-89: too few transactions or too little commission release the
\* lock and sleep; otherwise the block is built on self._last_block with the
\* queue itself as its transactions, and the lock is released.
MineDecide ==
    /\ miner.pc = "locked"
    /\ IF \/ LacksTransactions(miner.transaction_queue, miner.min_transaction_count)
          \/ BelowCommission(miner.transaction_queue, miner.min_commission)
       THEN /\ miner' = ReleaseAndSleep(miner)
            /\ last' = "gather_wait"
       ELSE /\ miner' = [miner EXCEPT
                           !.pc = "search",
                           !.lock = "free",
                           !.block = Block(miner.wallet, miner.transaction_queue,
                                           miner.last_block, <<>>, <<>>)]
            /\ last' = "built"
    /\ UNCHANGED <<initial, chain, nodes, hs, call, net, server>>

\* miner.py:90-92: block.proof_of_work(self._network_difficulty) gives one
\* argument to a method that takes three: TypeError ends the mine thread
\* before a digest is taken; the block, a local of mine, is gone.
MineSearch ==
    /\ miner.pc = "search"
    /\ miner' = [miner EXCEPT !.pc = "crashed", !.block = NoBlock]
    /\ last' = "mine_raised"
    /\ UNCHANGED <<initial, chain, nodes, hs, call, net, server>>

\* Miner.stop_mining (miner.py:102-103)
StopMining ==
    /\ miner.pc # "absent"
    /\ miner.mining
    /\ miner' = [miner EXCEPT !.mining = FALSE]
    /\ last' = "stop"
    /\ UNCHANGED <<initial, chain, nodes, hs, call, net, server>>

\* Miner.send up to the lock (miner.py:42-59): Node.send forwards first
\* (node.py:131), then the transaction is verified; a verified one waits
\* for the lock.  One send handler at a time.
Send(t) ==
    /\ miner.pc # "absent"
    /\ miner.sender = "none"
    /\ Len(miner.transaction_queue) < MaxQueue
    /\ IF ForwardOutcome(nodes) = "forward_raised"
       THEN /\ last' = "forward_raised"
            /\ UNCHANGED miner
       ELSE IF ~verify(t)
       THEN /\ last' = "unverified"
            /\ UNCHANGED miner
       ELSE /\ miner' = [miner EXCEPT !.sender = "waiting", !.pending = <<t>>]
            /\ last' = "none"
    /\ UNCHANGED <<initial, chain, nodes, hs, call, net, server>>

\* miner.py:60: self._transaction_queue_lock.acquire()
SendAcquire ==
    /\ miner.sender = "waiting"
    /\ miner.lock = "free"
    /\ miner' = [miner EXCEPT !.sender = "locked", !.lock = "send"]
    /\ last' = "none"
    /\ UNCHANGED <<initial, chain, nodes, hs, call, net, server>>

\* miner.py:61-62: append and release.  A block the mine loop has built
\* holds the same list object, so the append shows in the block.
SendAppend ==
    /\ miner.sender = "locked"
    /\ miner' = [miner EXCEPT
                    !.transaction_queue = Append(@, miner.pending[1]),
                    !.block.transactions =
                        IF miner.block # NoBlock
                        THEN Append(@, miner.pending[1]) ELSE @,
                    !.sender = "none",
                    !.pending = <<>>,
                    !.lock = "free"]
    /\ last' = "queued"
    /\ UNCHANGED <<initial, chain, nodes, hs, call, net, server>>

\* A Miner constructed on an empty or a long chain, with or without peers.
MinerInit ==
    /\ initial \in InitialLengths
    /\ chain = <<>>
    /\ nodes \in {{}, ManyPeers}
    /\ hs = [h \in Handlers |-> Idle]
    /\ last = "none"
    /\ call = NoCall
    /\ net = NoForward
    /\ server = NoServer
    /\ miner = NewMiner

\* Miner.new_block is Node.new_block (miner.py:40); peers announce blocks
\* without transactions on the last block.
MinerNext ==
    \/ \E k \in MinTransactionCounts, c \in MinCommissions : Mine(k, c)
    \/ MineAcquire
    \/ MineDecide
    \/ MineSearch
    \/ StopMining
    \/ \E t \in SendPool : Send(t)
    \/ SendAcquire
    \/ SendAppend
    \/ \E n \in Nonces : NewBlockBegin("h1", Mined(<<>>, CurrentParent, n))
    \/ NewBlockStore("h1")

MinerSpec == MinerInit /\ [][MinerNext]_vars

\* The mine thread runs whenever it can.  A send handler runs whenever it
\* can too, and gets the lock if the lock is free again and again: the mine
\* loop sleeps five seconds each time it has released it.
MinerLive ==
    /\ MinerInit
    /\ [][MinerNext]_vars
    /\ WF_vars(MineAcquire)
    /\ WF_vars(MineDecide)
    /\ WF_vars(MineSearch)
    /\ SF_vars(SendAcquire)
    /\ WF_vars(SendAppend)

\* C13: a block the Miner builds has as previous the digest of the last
\* block of the Store at that moment (the sentinel on an empty chain).
C13_BuildsOnTip ==
    [][last' = "built" => miner'.block.previous_block = CurrentParent]_vars

\* C14: once stop_mining was called while the loop runs, the loop reaches
\* Idle.
C14_StopReachesIdle ==
    (miner.pc \in {"gather", "locked", "search"} /\ ~miner.mining)
        ~> (miner.pc = "idle")

\* C15: a transaction send appends while the Miner is at its nonce search
\* does not become part of the block being mined.
C15_ArrivalsNotInBlock ==
    [][(last' = "queued" /\ miner.pc = "search")
          => miner'.block.transactions = miner.block.transactions]_vars

\* C21: the transactions of a block under construction are a snapshot: as
\* long as the Miner holds the block, the digest of its fields with a given
\* nonce stays the digest taken when the block was built.
C21_BlockIsSnapshot ==
    [][(miner.block # NoBlock /\ miner'.block # NoBlock)
          => CalculatedDigest(miner'.block, 0) = CalculatedDigest(miner.block, 0)]_vars

\* C22: the mine loop holds the lock only between its acquire and the end of
\* its threshold tests, never while it sleeps, is at the nonce search or has
\* ended; the queue changes only in a step of the thread that holds the
\* lock; and a send handler that waits for the lock gets it.
C22_LockDiscipline ==
    /\ [](miner.lock = "mine" <=> miner.pc = "locked")
    /\ [](miner.lock = "send" <=> miner.sender = "locked")
    /\ [][miner'.transaction_queue # miner.transaction_queue
            => miner.lock = "send"]_vars
    /\ (miner.sender = "waiting") ~> (miner.lock = "send")

\* A send handler holds the lock while the Miner is at its nonce search.
C22_Witness ==
    /\ miner.pc = "search"
    /\ miner.lock = "send"
    /\ miner.sender = "locked"

\* C17: the difficulty the Miner passes to proof_of_work is the network
\* difficulty new_block computes for the current chain length.
C17_MinerDifficulty ==
    miner.pc = "search" => miner.network_difficulty = NetworkDifficulty(NumberOfBlocks)

Insufficient ==
    \/ Len(miner.transaction_queue) < miner.min_transaction_count
    \/ /\ miner.min_commission > 0
       /\ QueueCommission(miner.transaction_queue) < miner.min_commission

\* C18: with fewer than K transactions, or C > 0 and less than C commission
\* in the queue, an iteration of the mine loop stays in Gather: it builds no
\* block and leaves the queue as it is.
C18_StaysInGather ==
    [][/\ miner.pc \in {"gather", "locked"} => miner.block = NoBlock
       /\ (miner.pc = "locked" /\ miner'.pc # "locked" /\ Insufficient) =>
             /\ last' = "gather_wait"
             /\ miner'.pc = "gather"
             /\ miner'.block = NoBlock
             /\ miner'.transaction_queue = miner.transaction_queue]_vars

\* The loop went back to Gather with enough transactions but too little
\* commission.
C18_Witness ==
    /\ last = "gather_wait"
    /\ miner.pc = "gather"
    /\ miner.min_transaction_count > 0
    /\ Len(miner.transaction_queue) >= miner.min_transaction_count
    /\ miner.min_commission > 0
    /\ QueueCommission(miner.transaction_queue) < miner.min_commission

(* ----------------------------- Network.forward ----------------------- *)

Port(k) == <<"10.0.1.1", 65000 + k>>

\* One peer fewer than random.sample asks for.
FewPeers == {Port(k) : k \in 1 .. SampleSize - 1}

\* The peers that register while the node runs.
LatePeers == {Port(SampleSize), Port(SampleSize + 1)}

\* The peers whose connection may fail.
FlakyPeers == {Port(1), Port(SampleSize)}

\* The subsets of peers that leave out drop of them.
RECURSIVE Without(_, _)
Without(peers, drop) ==
    IF drop = 0 THEN {peers}
    ELSE UNION {Without(peers \ {p}, drop - 1) : p \in peers}

\* random.sample(nodes, 100): any 100 of the peers   (node.py:209)
Samples(peers) == Without(peers, Cardinality(peers) - SampleSize)

\* Network.forward(cmd) (node.py:189-227): with fewer peers than the sample
\* size random.sample raises ValueError; otherwise every sampled peer is
\* connected to, and a failed connect skips to the next peer.
Forward ==
    /\ net.outcome = "none"
    /\ IF ForwardOutcome(nodes) = "forward_raised"
       THEN net' = [net EXCEPT !.known = Cardinality(nodes), !.outcome = "raised"]
       ELSE \E sample \in Samples(nodes) :
               net' = [net EXCEPT !.known = Cardinality(nodes),
                                  !.attempted = sample,
                                  !.delivered = sample \ net.failing,
                                  !.outcome = "completed"]
    /\ last' = ForwardOutcome(nodes)
    /\ UNCHANGED <<initial, chain, nodes, hs, call, miner, server>>

\* A Store without peers or with 99 of them; some connections will fail.
ForwardInit ==
    /\ initial = 0
    /\ chain = <<>>
    /\ nodes \in {{}, FewPeers}
    /\ hs = [h \in Handlers |-> Idle]
    /\ last = "none"
    /\ call = NoCall
    /\ miner = NoMiner
    /\ server = NoServer
    /\ \E failing \in SUBSET FlakyPeers : net = [NoForward EXCEPT !.failing = failing]

ForwardNext ==
    \/ \E p \in LatePeers : Register(p)
    \/ Forward

ForwardSpec == ForwardInit /\ [][ForwardNext]_vars

\* C16: forward completes without raising and attempts min(K, 100) distinct
\* peers, whatever the number K of peers and whichever connections fail.
C16_ForwardBestEffort ==
    net.outcome # "none" =>
        /\ net.outcome = "completed"
        /\ Cardinality(net.attempted) =
              (IF net.known < SampleSize THEN net.known ELSE SampleSize)

(* -------------------------------- Node.run ---------------------------- *)

\* What a connection may carry.
Payloads ==
    {"undecodable", "unknown_cmd", "register_no_port", "send", "register", "get_blocks"}

\* The peer a register command announces.
RegisteringPeer == <<"10.0.0.2", 65345>>

\* What handle does with a payload (node.py:139-150).  Only NameError is
\* caught: the ValueError of json.loads, the KeyError of an unknown cmd or
\* of a missing field and the ValueError of forward leave handle.
HandleOutcome(payload, peers) ==
    CASE payload = "undecodable" -> "failed"
      [] payload = "unknown_cmd" -> "failed"
      [] payload = "register_no_port" -> "failed"
      [] payload = "send" ->
            IF ForwardOutcome(peers) = "forward_raised" THEN "failed" ELSE "done"
      [] OTHER -> "done"

\* A server that runs handle in the thread of its accept loop.
AcceptLoopInline(running, outcome) == running /\ outcome # "failed"

\* handle runs in a thread of its own (node.py:165): what it raises does not
\* reach the loop of run.
AcceptLoopAfter(running, outcome) == running

\* node.py:164-165: accept a connection and start its handler thread.
Accept(c, payload) ==
    /\ server.running
    /\ server.connections[c].pc = "waiting"
    /\ server' = [server EXCEPT
                     !.connections[c] =
                         [pc |-> "handling", payload |-> payload,
                          open |-> TRUE, response |-> "none"]]
    /\ last' = "none"
    /\ UNCHANGED <<initial, chain, nodes, hs, call, miner, net>>

\* Node.handle (node.py:133-150) to the end of its thread: the socket, held
\* by that thread only, is closed when the thread ends, by return or by an
\* exception.
Handle(c) ==
    /\ server.connections[c].pc = "handling"
    /\ LET payload == server.connections[c].payload
           outcome == HandleOutcome(payload, nodes)
       IN /\ server' = [server EXCEPT
                           !.running = AcceptLoopAfter(@, outcome),
                           !.connections[c].pc = outcome,
                           !.connections[c].open = FALSE,
                           !.connections[c].response =
                               IF payload = "get_blocks" THEN "blocks" ELSE "none"]
          /\ nodes' = IF payload = "register"
                      THEN store_node(nodes, RegisteringPeer) ELSE nodes
          /\ last' = outcome
    /\ UNCHANGED <<initial, chain, hs, call, miner, net>>

\* Node.run at its accept loop (node.py:162-164).
ServerInit ==
    /\ initial = 0
    /\ chain = <<>>
    /\ nodes = {}
    /\ hs = [h \in Handlers |-> Idle]
    /\ last = "none"
    /\ call = NoCall
    /\ miner = NoMiner
    /\ net = NoForward
    /\ server = [NoServer EXCEPT !.running = TRUE]

ServerNext ==
    \/ \E c \in Connections, payload \in Payloads : Accept(c, payload)
    \/ \E c \in Connections : Handle(c)

ServerSpec == ServerInit /\ [][ServerNext]_vars

====
